---- MODULE Spec2Model ----
(***************************************************************************)
(* Model of the network-resource planner and applier of                    *)
(* modules/network/net_resource.go.                                        *)
(*                                                                         *)
(* Two specifications share the module:                                    *)
(*   SpecPlan  - the four planning strategies as pure functions, applied   *)
(*               to every network / local resource of a bounded domain;    *)
(*   SpecApply - configWG / configureExitNetNR as a step machine over the  *)
(*               key file, the tunnel interface and the route table.       *)
(***************************************************************************)
EXTENDS Integers, Sequences, FiniteSets, TLC

(***************************************************************************)
(* Bounds of the model.                                                    *)
(***************************************************************************)
NPrefixes == 3
MaxOps == 2
MaxSize == 3
MaxEvents == 3
MaxPeers == 2
MaxRoutes == 2
MaxCalls == 3
MaxFaults == 2

(***************************************************************************)
(* Addresses.  An IPv6 address is its upper 64 bits (four 16-bit groups)   *)
(* and its lower 64 bits; an IPv4 address is its four octets.  An IPNet is *)
(* an address with a mask of `ones` leading one bits out of `bits`.        *)
(***************************************************************************)
IP6(hi, lo) == [v |-> 6, hi |-> hi, lo |-> lo, o |-> <<>>]
IP4(a, b, c, d) == [v |-> 4, hi |-> <<>>, lo |-> 0, o |-> <<a, b, c, d>>]
IPNet(ip, ones, bits) == [IP |-> ip, ones |-> ones, bits |-> bits]

\* net.IPNet.Contains for the mask lengths the planner produces
Take(s, n) == SubSeq(s, 1, n)
Contains(n, ip) ==
    /\ (n.bits = 128) = (ip.v = 6)
    /\ IF ip.v = 6
       THEN CASE n.ones = 0   -> TRUE
              [] n.ones = 64  -> ip.hi = n.IP.hi
              [] n.ones = 128 -> ip = n.IP
              [] OTHER        -> FALSE
       ELSE CASE n.ones = 0   -> TRUE
              [] n.ones = 16  -> Take(ip.o, 2) = Take(n.IP.o, 2)
              [] n.ones = 24  -> Take(ip.o, 3) = Take(n.IP.o, 3)
              [] n.ones = 32  -> ip = n.IP
              [] OTHER        -> FALSE

\* net.IPNet.String(): the address and the mask length, "addr/ones"
String(n) == <<n.IP, n.ones>>

(***************************************************************************)
(* Nibble: the derivation of names and addresses from a prefix.  The       *)
(* nibble is the fourth 16-bit group of the prefix (bytes 6 and 7).        *)
(***************************************************************************)
NibbleOf(prefix) == prefix.IP.hi[4]
Hex(prefix) == NibbleOf(prefix)
ToV4(prefix) == [a |-> NibbleOf(prefix) \div 256, b |-> NibbleOf(prefix) % 256]

\* "fe80::%s" with the nibble's hex token
LinkLocalOf(prefix) == IP6(<<65152, 0, 0, 0>>, Hex(prefix))

(***************************************************************************)
(* modules.NodeID reachability, modules.Peer, modules.NetResource.         *)
(***************************************************************************)
ReachabilityV4Unknown == "v4-unknown"
ReachabilityV4Hidden == "v4-hidden"
ReachabilityV4Public == "v4-public"
ReachabilityV6Unknown == "v6-unknown"
ReachabilityV6ULA == "v6-ula"
ReachabilityV6Public == "v6-public"

ConnTypeWireguard == "wireguard"
ConnTypeOther == "localvxlan"

\* isPublic asking for both families to be public
isPublicBothFamilies(nodeID) ==
    /\ nodeID.ReachabilityV6 = ReachabilityV6Public
    /\ nodeID.ReachabilityV4 = ReachabilityV4Public

isPublic(nodeID) ==
    \/ nodeID.ReachabilityV6 = ReachabilityV6Public
    \/ nodeID.ReachabilityV4 = ReachabilityV4Public

isHidden(nodeID) ==
    \/ nodeID.ReachabilityV6 = ReachabilityV6ULA
    \/ nodeID.ReachabilityV4 = ReachabilityV4Hidden

RECURSIVE publicPrefixes(_)
publicPrefixes(resources) ==
    IF resources = <<>> THEN <<>>
    ELSE (IF isPublic(Head(resources).NodeID)
          THEN <<String(Head(resources).Prefix)>> ELSE <<>>)
         \o publicPrefixes(Tail(resources))

RECURSIVE hiddenPrefixes(_)
hiddenPrefixes(resources) ==
    IF resources = <<>> THEN <<>>
    ELSE (IF isHidden(Head(resources).NodeID)
          THEN <<String(Head(resources).Prefix)>> ELSE <<>>)
         \o hiddenPrefixes(Tail(resources))

isIn(target, l) == \E k \in 1..Len(l) : l[k] = target

\* getPeer: the first peer with the prefix, or the error "peer not found"
PeerIndex(prefix, ps) ==
    IF \E k \in 1..Len(ps) : String(ps[k].Prefix) = prefix
    THEN CHOOSE k \in 1..Len(ps) :
            /\ String(ps[k].Prefix) = prefix
            /\ \A j \in 1..(k - 1) : String(ps[j].Prefix) # prefix
    ELSE 0
\* getPeer falling back to the first peer instead of failing
getPeerOrFirst(prefix, ps) ==
    IF PeerIndex(prefix, ps) # 0
    THEN [found |-> TRUE, peer |-> ps[PeerIndex(prefix, ps)], err |-> "nil"]
    ELSE IF ps # <<>> THEN [found |-> TRUE, peer |-> ps[1], err |-> "nil"]
    ELSE [found |-> FALSE, err |-> "peer not found"]

getPeer(prefix, ps) ==
    IF PeerIndex(prefix, ps) = 0
    THEN [found |-> FALSE, err |-> "peer not found"]
    ELSE [found |-> TRUE, peer |-> ps[PeerIndex(prefix, ps)], err |-> "nil"]

\* endpoint: "[ip]:port"; never the empty string
NoEndpoint == <<>>
endpoint(peer) == <<peer.Connection.IP, peer.Connection.Port>>


(***************************************************************************)
(* The planning strategies.  A planned WireGuard peer is a wireguard.Peer  *)
(* {PublicKey, Endpoint, AllowedIPs}; a planned route is a netlink.Route   *)
(* {Dst, Gw, LinkIndex}, LinkIndex still the zero value.                   *)
(***************************************************************************)
\* the three allowed-IPs of a mesh peer: fe80::hex/128, 172.16.a.b/32, prefix
AllowedIPsOf(peer) ==
    << IPNet(LinkLocalOf(peer.Prefix), 128, 128),
       IPNet(IP4(172, 16, ToV4(peer.Prefix).a, ToV4(peer.Prefix).b), 32, 32),
       peer.Prefix >>

\* the route to a peer's prefix via its link-local address
RouteVia(peer) ==
    [Dst |-> peer.Prefix, Gw |-> LinkLocalOf(peer.Prefix), LinkIndex |-> 0]

NoPlan == [peers |-> <<>>, routes |-> <<>>]

\* exitStep without the test against the hidden prefixes
exitStepAnyPeer(peer, localResource, hidden) ==
    IF peer.Type # ConnTypeWireguard THEN NoPlan
    ELSE IF String(peer.Prefix) = String(localResource.Prefix) THEN NoPlan
    ELSE [peers  |-> << [PublicKey  |-> peer.Connection.Key,
                         Endpoint   |-> NoEndpoint,
                         AllowedIPs |-> AllowedIPsOf(peer)] >>,
          routes |-> << RouteVia(peer) >>]

\* one iteration of the loop of configureExitNetNR
exitStep(peer, localResource, hidden) ==
    IF peer.Type # ConnTypeWireguard THEN NoPlan
    ELSE IF String(peer.Prefix) = String(localResource.Prefix) THEN NoPlan
    ELSE IF ~isIn(String(peer.Prefix), hidden) THEN NoPlan
    ELSE [peers  |-> << [PublicKey  |-> peer.Connection.Key,
                         Endpoint   |-> NoEndpoint,
                         AllowedIPs |-> AllowedIPsOf(peer)] >>,
          routes |-> << RouteVia(peer) >>]

\* hiddenStep without the test against the public prefixes
hiddenStepAnyPeer(peer, localResource, public) ==
    IF peer.Type # ConnTypeWireguard THEN NoPlan
    ELSE IF String(peer.Prefix) = String(localResource.Prefix) THEN NoPlan
    ELSE [peers  |-> << [PublicKey  |-> peer.Connection.Key,
                         Endpoint   |-> endpoint(peer),
                         AllowedIPs |-> AllowedIPsOf(peer)] >>,
          routes |-> << RouteVia(peer) >>]

\* one iteration of the loop of prepareHidden
hiddenStep(peer, localResource, public) ==
    IF peer.Type # ConnTypeWireguard THEN NoPlan
    ELSE IF String(peer.Prefix) = String(localResource.Prefix) THEN NoPlan
    ELSE IF isIn(String(peer.Prefix), public)
    THEN [peers  |-> << [PublicKey  |-> peer.Connection.Key,
                         Endpoint   |-> endpoint(peer),
                         AllowedIPs |-> AllowedIPsOf(peer)] >>,
          routes |-> << RouteVia(peer) >>]
    ELSE NoPlan

\* publicStep with the endpoint set on every peer
publicStepAlwaysEndpoint(peer, localResource, network, public) ==
    IF peer.Type # ConnTypeWireguard THEN NoPlan
    ELSE IF String(peer.Prefix) = String(localResource.Prefix) THEN NoPlan
    ELSE [peers  |-> << [PublicKey  |-> peer.Connection.Key,
                         Endpoint   |-> endpoint(peer),
                         AllowedIPs |-> AllowedIPsOf(peer)] >>,
          routes |-> IF String(peer.Prefix) = String(network.Exit.Prefix)
                     THEN <<>> ELSE << RouteVia(peer) >>]

\* publicStep with a route to every peer, the Exit included
publicStepRouteToExit(peer, localResource, network, public) ==
    IF peer.Type # ConnTypeWireguard THEN NoPlan
    ELSE IF String(peer.Prefix) = String(localResource.Prefix) THEN NoPlan
    ELSE [peers  |-> << [PublicKey  |-> peer.Connection.Key,
                         Endpoint   |-> IF isIn(String(peer.Prefix), public)
                                        THEN endpoint(peer) ELSE NoEndpoint,
                         AllowedIPs |-> AllowedIPsOf(peer)] >>,
          routes |-> << RouteVia(peer) >>]

\* one iteration of the loop of preparePublic
publicStep(peer, localResource, network, public) ==
    IF peer.Type # ConnTypeWireguard THEN NoPlan
    ELSE IF String(peer.Prefix) = String(localResource.Prefix) THEN NoPlan
    ELSE [peers  |-> << [PublicKey  |-> peer.Connection.Key,
                         Endpoint   |-> IF isIn(String(peer.Prefix), public)
                                        THEN endpoint(peer) ELSE NoEndpoint,
                         AllowedIPs |-> AllowedIPsOf(peer)] >>,
          routes |-> IF String(peer.Prefix) = String(network.Exit.Prefix)
                     THEN <<>> ELSE << RouteVia(peer) >>]

\* exitLoop appending in reverse peer-list order
RECURSIVE exitLoopReversed(_, _, _)
exitLoopReversed(ps, localResource, hidden) ==
    IF ps = <<>> THEN NoPlan
    ELSE LET h == exitStep(Head(ps), localResource, hidden)
             t == exitLoopReversed(Tail(ps), localResource, hidden)
         IN  [peers |-> t.peers \o h.peers, routes |-> t.routes \o h.routes]

RECURSIVE exitLoop(_, _, _)
exitLoop(ps, localResource, hidden) ==
    IF ps = <<>> THEN NoPlan
    ELSE LET h == exitStep(Head(ps), localResource, hidden)
             t == exitLoop(Tail(ps), localResource, hidden)
         IN  [peers |-> h.peers \o t.peers, routes |-> h.routes \o t.routes]

RECURSIVE hiddenLoop(_, _, _)
hiddenLoop(ps, localResource, public) ==
    IF ps = <<>> THEN NoPlan
    ELSE LET h == hiddenStep(Head(ps), localResource, public)
             t == hiddenLoop(Tail(ps), localResource, public)
         IN  [peers |-> h.peers \o t.peers, routes |-> h.routes \o t.routes]

RECURSIVE publicLoop(_, _, _, _)
publicLoop(ps, localResource, network, public) ==
    IF ps = <<>> THEN NoPlan
    ELSE LET h == publicStep(Head(ps), localResource, network, public)
             t == publicLoop(Tail(ps), localResource, network, public)
         IN  [peers |-> h.peers \o t.peers, routes |-> h.routes \o t.routes]

\* the planning part of configureExitNetNR (its peer/route loop)
exitPlan(localResource, network) ==
    LET p == exitLoop(localResource.Peers, localResource,
                      hiddenPrefixes(network.Resources))
    IN  [peers |-> p.peers, routes |-> p.routes, err |-> "nil"]

\* prepareHidden selecting its peers by the hidden prefixes
prepareHiddenByHidden(localResource, network) ==
    LET p == hiddenLoop(localResource.Peers, localResource,
                        hiddenPrefixes(network.Resources))
    IN  [peers |-> p.peers, routes |-> p.routes, err |-> "nil"]

prepareHidden(localResource, network) ==
    LET p == hiddenLoop(localResource.Peers, localResource,
                        publicPrefixes(network.Resources))
    IN  [peers |-> p.peers, routes |-> p.routes, err |-> "nil"]

preparePublic(localResource, network) ==
    LET p == publicLoop(localResource.Peers, localResource, network,
                        publicPrefixes(network.Resources))
    IN  [peers |-> p.peers, routes |-> p.routes, err |-> "nil"]

\* the three default routes of a non-exit node, via the exit peer
DefaultRoutes(exitPeer) ==
    LET a == ToV4(exitPeer.Prefix).a
        b == ToV4(exitPeer.Prefix).b
    IN  << [Dst |-> IPNet(IP6(<<0, 0, 0, 0>>, 0), 64, 128),
            Gw  |-> LinkLocalOf(exitPeer.Prefix), LinkIndex |-> 0],
           [Dst |-> IPNet(IP4(10, a, b, 0), 24, 32),
            Gw  |-> IP4(172, 16, a, b), LinkIndex |-> 0],
           [Dst |-> IPNet(IP4(0, 0, 0, 0), 0, 32),
            Gw  |-> IP4(172, 16, a, b), LinkIndex |-> 0] >>

\* the peer entry of the exit: catch-all allowed-IPs, the exit's endpoint
ExitWgPeer(exitPeer) ==
    [PublicKey  |-> exitPeer.Connection.Key,
     Endpoint   |-> endpoint(exitPeer),
     AllowedIPs |-> << IPNet(IP4(0, 0, 0, 0), 0, 32),
                       IPNet(IP6(<<0, 0, 0, 0>>, 0), 0, 128) >>]

prepareNonExitNode(localResource, network) ==
    LET r == getPeer(String(network.Exit.Prefix), localResource.Peers)
    IN  IF ~r.found
        THEN [peers |-> <<>>, routes |-> <<>>, err |-> r.err]
        ELSE [peers  |-> << ExitWgPeer(r.peer) >>,
              routes |-> IF String(localResource.Prefix) # String(network.Exit.Prefix)
                         THEN DefaultRoutes(r.peer) ELSE <<>>,
              err    |-> "nil"]

(***************************************************************************)
(* The input domain: NPrefixes resources with distinct /64 prefixes, each  *)
(* owned by a node of one of four reachability classes (public, hidden,    *)
(* neither, both); a peer entry is the entry of the network for its        *)
(* prefix, of tunnel type or of another type.                              *)
(***************************************************************************)
PrefixOf(n) == IPNet(IP6(<<8193, 3512, 0, 256 * n + 16 + n>>, 0), 64, 128)
Prefixes == {PrefixOf(n) : n \in 1..NPrefixes}

NodeIDs ==
    { [ReachabilityV4 |-> ReachabilityV4Public,  ReachabilityV6 |-> ReachabilityV6Unknown],
      [ReachabilityV4 |-> ReachabilityV4Unknown, ReachabilityV6 |-> ReachabilityV6ULA],
      [ReachabilityV4 |-> ReachabilityV4Unknown, ReachabilityV6 |-> ReachabilityV6Unknown],
      [ReachabilityV4 |-> ReachabilityV4Hidden,  ReachabilityV6 |-> ReachabilityV6Public] }

PeerFor(n, t) ==
    [Type       |-> t,
     Prefix     |-> PrefixOf(n),
     Connection |-> [IP   |-> IP4(185, 69, 166, n),
                     Port |-> 51820,
                     Key  |-> <<"pubkey", n>>]]
PeerEntries == {PeerFor(n, t) : n \in 1..NPrefixes, t \in {ConnTypeWireguard, ConnTypeOther}}

SeqsUpTo(S, n) == UNION {[1..k -> S] : k \in 0..n}

ResourceFor(n, id) ==
    [NodeID    |-> id,
     Prefix    |-> PrefixOf(n),
     LinkLocal |-> IPNet(LinkLocalOf(PrefixOf(n)), 64, 128)]

\* The Exit is resource 1 or resource 2: with resource 1 the local resource
\* (see InitPlan) the Exit is the local resource or another one, and the
\* planning functions treat the other resources alike.
Networks ==
    { [Resources    |-> [n \in 1..NPrefixes |-> ResourceFor(n, ids[n])],
       Exit         |-> ResourceFor(e, ids[e]),
       AllocationNR |-> 0] :
        ids \in [1..NPrefixes -> NodeIDs], e \in {1, 2} }

\* resource n of the network as the local resource, with its peer list
LocalResources(net, n) ==
    { [NodeID    |-> net.Resources[n].NodeID,
       Prefix    |-> net.Resources[n].Prefix,
       LinkLocal |-> net.Resources[n].LinkLocal,
       Peers     |-> ps] :
        ps \in SeqsUpTo(PeerEntries, MaxPeers) }

(***************************************************************************)
(* State.                                                                  *)
(***************************************************************************)
VARIABLES
    network,        \* the modules.Network snapshot
    localResource,  \* the local modules.NetResource
    strategy,       \* the planning function last called, "none" before any
    peers,          \* the planned []wireguard.Peer
    routes,         \* the planned []*netlink.Route
    err,            \* the error the planning call returned, "nil" for none
    pc,             \* the position of the running apply call
    key,            \* its local variable key
    idx,            \* its position in the route loop
    applyErr,       \* the error the last apply call returned
    keyFile,        \* the key stored at storagePath, NoKey when absent
    generated,      \* the number of keys generated so far
    wg,             \* the tunnel interface: Index, Addrs, PrivateKey, Peers
    routeTable,     \* the routes of the resource's namespace
    calls,          \* the number of apply calls started
    faults,         \* the number of environment faults so far
    hist,           \* what the earlier steps did (for the properties)
    output,         \* the results of publicPrefixes and hiddenPrefixes
    run,            \* the createNetworkResource call of each resource
    host,           \* the bridges, namespaces, links and addresses of the host
    remote,         \* the plan another resource of the network made
    race,           \* two apply calls for one resource running together
    zdb,            \* the storage module: its pools and the last call's result
    mon             \* HostMonitorStub.Uptime: stream, goroutine, channel

planVars == <<network, localResource, strategy, peers, routes, err>>
callVars == <<pc, key, idx, applyErr>>
osVars == <<keyFile, generated, wg, routeTable>>
applyVars == <<callVars, osVars, calls, faults, hist>>
classVars == <<output>>
provVars == <<run, host>>
sideVars == <<remote, race, zdb, mon>>
vars == <<planVars, applyVars, classVars, provVars, sideVars>>

NoKey == <<>>
NoHist ==
    [okBefore |-> FALSE, prevFaulted |-> FALSE, faulted |-> FALSE,
     tried |-> {}, failedAt |-> 0, failErr |-> "nil", loadFailed |-> FALSE]

\* nothing else is running
SideIdle ==
    /\ remote = <<>>
    /\ race = <<>>
    /\ zdb = <<>>
    /\ mon = <<>>

\* no classification asked for yet
NoOutput == [called |-> {}, public |-> <<>>, hidden |-> <<>>]
ClassIdle == output = NoOutput

\* no provisioning under way, nothing provisioned
NoRun == [pc |-> "idle", err |-> "nil", calls |-> 0, hostIface |-> <<>>,
          done |-> {}, failed |-> "none", faulted |-> FALSE, existed |-> FALSE,
          bornIn |-> "nowhere", made |-> {}, moved |-> {}]
NoHost == [public |-> FALSE, bridges |-> {}, netns |-> {}, forwarding |-> {},
           links |-> {}, addrs |-> {}, attached |-> {}]
ProvIdle ==
    /\ run = [r \in {1, 2} |-> NoRun]
    /\ host = NoHost

\* the apply side at rest: nothing provisioned is touched while planning
ApplyIdle ==
    /\ pc = "idle"
    /\ key = NoKey
    /\ idx = 0
    /\ applyErr = "nil"
    /\ keyFile = NoKey
    /\ generated = 0
    /\ wg = [Index |-> 0, Addrs |-> {}, PrivateKey |-> NoKey, Peers |-> <<>>]
    /\ routeTable = {}
    /\ calls = 0
    /\ faults = 0
    /\ hist = NoHist

\* The planning functions treat the resources alike (they compare prefixes
\* and test membership only), so the local resource is taken, without loss
\* of generality, to be resource 1.
InitPlan ==
    /\ ApplyIdle
    /\ ClassIdle
    /\ ProvIdle
    /\ SideIdle
    /\ network \in Networks
    /\ localResource \in LocalResources(network, 1)
    /\ strategy = "none"
    /\ peers = <<>>
    /\ routes = <<>>
    /\ err = "nil"

Return(name, r) ==
    /\ strategy = "none"
    /\ strategy' = name
    /\ peers' = r.peers
    /\ routes' = r.routes
    /\ err' = r.err
    /\ UNCHANGED <<network, localResource, applyVars, classVars, provVars, sideVars>>

CallExitPlan == Return("configureExitNetNR", exitPlan(localResource, network))
CallPrepareHidden == Return("prepareHidden", prepareHidden(localResource, network))
CallPreparePublic == Return("preparePublic", preparePublic(localResource, network))
CallPrepareNonExitNode == Return("prepareNonExitNode", prepareNonExitNode(localResource, network))

NextPlan ==
    \/ CallExitPlan
    \/ CallPrepareHidden
    \/ CallPreparePublic
    \/ CallPrepareNonExitNode

SpecPlan == InitPlan /\ [][NextPlan]_vars

(***************************************************************************)
(* Properties of the planning strategies (checked under SpecPlan).         *)
(***************************************************************************)
Range(f) == {f[k] : k \in DOMAIN f}

\* the resources of the network that own a prefix
Owners(prefix) == {r \in Range(network.Resources) : r.Prefix = prefix}
ExitPrefix == network.Exit.Prefix
LocalIsExit == localResource.Prefix = ExitPrefix
ListsExit == \E k \in DOMAIN localResource.Peers : localResource.Peers[k].Prefix = ExitPrefix

\* destinations used to tell a catch-all route from a narrower one
SampleIPs ==
    {PrefixOf(n).IP : n \in 1..NPrefixes}
        \cup {IP6(<<0, 0, 0, 0>>, 1), IP6(<<9733, 0, 0, 0>>, 1)}
        \cup {IP4(8, 8, 8, 8), IP4(10, 1, 2, 3), IP4(0, 0, 0, 1)}
CatchAll(n, v) == \A ip \in SampleIPs : ip.v = v => Contains(n, ip)

\* C1: default-route planning with the Exit among the peers returns, on a
\* non-exit node, exactly three routes - one IPv6 route matching every IPv6
\* destination via the exit's link-local address, and the IPv4 routes
\* 10.a.b.0/24 and 0.0.0.0/0 via the exit's 172.16.a.b - and no route on the
\* Exit itself.
C1_DefaultRoutes ==
    (strategy = "prepareNonExitNode" /\ ListsExit) =>
        IF LocalIsExit THEN routes = <<>>
        ELSE LET a == ToV4(ExitPrefix).a
                 b == ToV4(ExitPrefix).b
                 six == {k \in DOMAIN routes : routes[k].Dst.bits = 128}
             IN  /\ Len(routes) = 3
                 /\ Cardinality(six) = 1
                 /\ \A k \in six :
                        /\ CatchAll(routes[k].Dst, 6)
                        /\ routes[k].Gw = LinkLocalOf(ExitPrefix)
                 /\ \E k \in DOMAIN routes :
                        /\ routes[k].Dst = IPNet(IP4(10, a, b, 0), 24, 32)
                        /\ routes[k].Gw = IP4(172, 16, a, b)
                 /\ \E k \in DOMAIN routes :
                        /\ routes[k].Dst = IPNet(IP4(0, 0, 0, 0), 0, 32)
                        /\ CatchAll(routes[k].Dst, 4)
                        /\ routes[k].Gw = IP4(172, 16, a, b)

\* C2: every route of exit-hub planning has as destination the prefix of a
\* hidden peer of the local resource and as gateway the link-local address
\* of the resource owning that prefix.
C2_ExitRoutesToHiddenPeer ==
    strategy = "configureExitNetNR" =>
        \A k \in DOMAIN routes :
            \E j \in DOMAIN localResource.Peers :
                /\ routes[k].Dst = localResource.Peers[j].Prefix
                /\ \E r \in Owners(routes[k].Dst) :
                        /\ isHidden(r.NodeID)
                        /\ routes[k].Gw = r.LinkLocal.IP

C2_Witness ==
    /\ strategy = "configureExitNetNR"
    /\ Len(localResource.Peers) = 2
    /\ Len(routes) = 2
    /\ routes[1].Dst # routes[2].Dst

\* C3: every peer public-node planning returns with an endpoint has the
\* prefix of a resource whose NodeID is Public.
C3_EndpointOnlyOnPublic ==
    strategy = "preparePublic" =>
        \A k \in DOMAIN peers :
            peers[k].Endpoint # NoEndpoint =>
                \E r \in Owners(peers[k].AllowedIPs[3]) : isPublic(r.NodeID)

C3_Witness ==
    /\ strategy = "preparePublic"
    /\ Len(peers) = 2
    /\ peers[1].Endpoint # NoEndpoint
    /\ peers[2].Endpoint = NoEndpoint

\* the peer entries of the local resource that carry its own prefix
SelfEntries ==
    {e \in Range(localResource.Peers) : String(e.Prefix) = String(localResource.Prefix)}

\* C4: in every strategy a peer entry with the local resource's own prefix
\* contributes no WireGuard peer and no route.
C4_NoSelfPeering ==
    strategy # "none" =>
        \A e \in SelfEntries :
            /\ \A k \in DOMAIN peers : peers[k].PublicKey # e.Connection.Key
            /\ \A k \in DOMAIN routes :
                    /\ routes[k].Dst # e.Prefix
                    /\ routes[k].Gw # LinkLocalOf(e.Prefix)

\* C5: when no peer entry of the local resource has the Exit's prefix,
\* default-route planning returns an error, no peers and no routes.
C5_MissingExitIsError ==
    (strategy = "prepareNonExitNode" /\ ~ListsExit) =>
        /\ err # "nil"
        /\ peers = <<>>
        /\ routes = <<>>

C5_Witness ==
    /\ strategy = "prepareNonExitNode"
    /\ ~ListsExit
    /\ Len(localResource.Peers) = 2
    /\ err = "peer not found"

\* the peer entries of tunnel type
TunnelEntries == {e \in Range(localResource.Peers) : e.Type = ConnTypeWireguard}

\* C6: in every strategy each returned peer and each returned route comes
\* from a peer entry of tunnel type; an entry of another type is ignored.
C6_OnlyTunnelPeers ==
    strategy # "none" =>
        /\ \A k \in DOMAIN peers :
                \E e \in TunnelEntries : peers[k].PublicKey = e.Connection.Key
        /\ \A k \in DOMAIN routes :
                \E e \in TunnelEntries :
                    routes[k].Gw \in {LinkLocalOf(e.Prefix),
                                      IP4(172, 16, ToV4(e.Prefix).a, ToV4(e.Prefix).b)}

(***************************************************************************)
(* Apply: configWG and the second half of configureExitNetNR, which are    *)
(* the same statements.  One action per call the code makes to the key     *)
(* store, the namespace, the tunnel interface and the route table.  Every  *)
(* such call can fail with an error of the environment ("fault"), at most  *)
(* MaxFaults times in a behaviour.                                         *)
(***************************************************************************)
\* the network of the apply runs: resource 1 is Public and the Exit, the
\* others are Hidden
ApplyNetwork ==
    [Resources    |-> [n \in 1..NPrefixes |->
                        ResourceFor(n, [ReachabilityV4 |-> IF n = 1 THEN ReachabilityV4Public
                                                                    ELSE ReachabilityV4Hidden,
                                        ReachabilityV6 |-> ReachabilityV6Unknown])],
     Exit         |-> ResourceFor(1, [ReachabilityV4 |-> ReachabilityV4Public,
                                      ReachabilityV6 |-> ReachabilityV6Unknown]),
     AllocationNR |-> 0]

\* the wgPeers and routes arguments of configWG
PlanRoutes == SeqsUpTo({RouteVia(PeerFor(n, ConnTypeWireguard)) : n \in 1..NPrefixes}, MaxRoutes)
PlanPeers == {<<>>, <<ExitWgPeer(PeerFor(1, ConnTypeWireguard))>>}

InitApply ==
    /\ ClassIdle
    /\ ProvIdle
    /\ SideIdle
    /\ network = ApplyNetwork
    /\ err = "nil"
    /\ \/ /\ strategy = "configureExitNetNR"
          /\ localResource \in LocalResources(network, 1)
          /\ peers = <<>>
          /\ routes = <<>>
       \/ /\ strategy = "configWG"
          /\ localResource \in {l \in LocalResources(network, 2) : l.Peers = <<>>}
          /\ peers \in PlanPeers
          /\ routes \in PlanRoutes
    /\ pc = "idle"
    /\ key = NoKey
    /\ idx = 0
    /\ applyErr = "nil"
    /\ keyFile \in {NoKey, <<"privkey", 0>>}
    /\ generated = 0
    /\ wg \in {[Index |-> i, Addrs |-> {}, PrivateKey |-> NoKey, Peers |-> <<>>] : i \in {3, 7}}
    /\ routeTable = {}
    /\ calls = 0
    /\ faults = 0
    /\ hist = NoHist

\* wireguard.LoadKey: the key stored at the path; an error when none is
\* stored or when the stored one cannot be read
wireguardLoadKey(file, unreadable) ==
    IF file = NoKey \/ unreadable
    THEN [key |-> NoKey, err |-> "load failed"]
    ELSE [key |-> file, err |-> "nil"]

\* wireguard.GenerateKey: a fresh key, persisted at the path
wireguardGenerateKey(n) ==
    [key |-> <<"privkey", n + 1>>, file |-> <<"privkey", n + 1>>, err |-> "nil"]

\* Wireguard.SetAddr: the address is on the interface afterwards; an
\* address that is already assigned is not an error
wgSetAddr(w, addr) == [w EXCEPT !.Addrs = @ \cup {addr}]

\* Wireguard.Configure: the private key and the whole peer list at once
wgConfigure(w, k, ps) == [w EXCEPT !.PrivateKey = k, !.Peers = ps]

\* an environment fault may strike the running step
CanFault == faults < MaxFaults
Fault ==
    /\ faults' = faults + 1
    /\ hist' = [hist EXCEPT !.faulted = TRUE]
NoFault == UNCHANGED <<faults, hist>>

\* return e from the call
ReturnErr(e) ==
    /\ pc' = "returned"
    /\ applyErr' = e

\* entry of configWG / configureExitNetNR; the latter first plans (its loop)
Call ==
    /\ pc \in {"idle", "returned"}
    /\ calls < MaxCalls
    /\ calls' = calls + 1
    /\ pc' = "GetByName"
    /\ key' = NoKey
    /\ idx' = 0
    /\ applyErr' = "nil"
    /\ hist' = [okBefore    |-> hist.okBefore \/ (pc = "returned" /\ applyErr = "nil"),
                prevFaulted |-> pc = "returned" /\ hist.faulted,
                faulted     |-> FALSE,
                tried       |-> {},
                failedAt    |-> 0,
                failErr     |-> "nil",
                loadFailed  |-> FALSE]
    /\ IF strategy = "configureExitNetNR"
       THEN /\ peers' = exitPlan(localResource, network).peers
            /\ routes' = exitPlan(localResource, network).routes
       ELSE UNCHANGED <<peers, routes>>
    /\ UNCHANGED <<network, localResource, strategy, err, osVars, faults,
                   classVars, provVars, sideVars>>

\* namespace.GetByName(localNibble.NetworkName())
GetByName ==
    /\ pc = "GetByName"
    /\ \/ /\ NoFault
          /\ pc' = "LoadKey"
          /\ UNCHANGED applyErr
       \/ /\ CanFault
          /\ Fault
          /\ ReturnErr("fault")
    /\ UNCHANGED <<planVars, classVars, provVars, sideVars, key, idx, osVars, calls>>

\* key, err = wireguard.LoadKey(storagePath); any error leads to GenerateKey
LoadKey ==
    /\ pc = "LoadKey"
    /\ \E unreadable \in BOOLEAN :
          /\ unreadable => (keyFile # NoKey /\ CanFault)
          /\ faults' = IF unreadable THEN faults + 1 ELSE faults
          /\ hist' = [hist EXCEPT !.loadFailed = unreadable]
          /\ LET r == wireguardLoadKey(keyFile, unreadable)
             IN  /\ key' = r.key
                 /\ pc' = IF r.err # "nil" THEN "GenerateKey" ELSE "wgGetByName"
    /\ UNCHANGED <<planVars, classVars, provVars, sideVars, idx, applyErr, osVars, calls>>

\* key, err = wireguard.GenerateKey(storagePath)
GenerateKey ==
    /\ pc = "GenerateKey"
    /\ \/ /\ NoFault
          /\ generated' = generated + 1
          /\ key' = wireguardGenerateKey(generated).key
          /\ keyFile' = wireguardGenerateKey(generated).file
          /\ pc' = "wgGetByName"
          /\ UNCHANGED applyErr
       \/ /\ CanFault
          /\ Fault
          /\ ReturnErr("fault")
          /\ UNCHANGED <<key, keyFile, generated>>
    /\ UNCHANGED <<planVars, classVars, provVars, sideVars, idx, wg, routeTable, calls>>

\* wireguard.GetByName(localNibble.WiregardName()), inside the namespace
WgGetByName ==
    /\ pc = "wgGetByName"
    /\ \/ /\ NoFault
          /\ pc' = "SetAddrLinkLocal"
          /\ UNCHANGED applyErr
       \/ /\ CanFault
          /\ Fault
          /\ ReturnErr("fault")
    /\ UNCHANGED <<planVars, classVars, provVars, sideVars, key, idx, osVars, calls>>

\* a call of wg.SetAddr and the test of its error
SetAddr(addr, next) ==
    \/ /\ NoFault
       /\ wg' = wgSetAddr(wg, addr)
       /\ pc' = next
       /\ UNCHANGED applyErr
    \/ /\ CanFault
       /\ Fault
       /\ ReturnErr("fault")
       /\ UNCHANGED wg

\* wg.SetAddr(localResource.LinkLocal.String())
SetAddrLinkLocal ==
    /\ pc = "SetAddrLinkLocal"
    /\ SetAddr(localResource.LinkLocal, "SetAddrV4")
    /\ UNCHANGED <<planVars, classVars, provVars, sideVars, key, idx, keyFile, generated, routeTable, calls>>

\* SetAddrV4 going on to Configure without assigning the address
SetAddrV4Skipped ==
    /\ pc = "SetAddrV4"
    /\ pc' = "Configure"
    /\ NoFault
    /\ UNCHANGED <<planVars, classVars, provVars, sideVars, key, idx, applyErr, osVars, calls>>

\* wg.SetAddr("172.16.a.b/16") with the local nibble's a, b
SetAddrV4 ==
    /\ pc = "SetAddrV4"
    /\ SetAddr(IPNet(IP4(172, 16, ToV4(localResource.Prefix).a,
                         ToV4(localResource.Prefix).b), 16, 32), "Configure")
    /\ UNCHANGED <<planVars, classVars, provVars, sideVars, key, idx, keyFile, generated, routeTable, calls>>

\* afterRouteAdd treating routes as best effort: an error is passed over
afterRouteAddBestEffort(e, k, n) ==
    IF k >= n THEN [pc |-> "returned", idx |-> k, err |-> "nil"]
    ELSE [pc |-> "RouteAdd", idx |-> k + 1, err |-> "nil"]

\* the state of a call after RouteAdd on route k of n returned e: the first
\* error is returned, the last success returns nil
afterRouteAdd(e, k, n) ==
    IF e # "nil" THEN [pc |-> "returned", idx |-> k, err |-> e]
    ELSE IF k >= n THEN [pc |-> "returned", idx |-> k, err |-> "nil"]
    ELSE [pc |-> "RouteAdd", idx |-> k + 1, err |-> "nil"]

\* wg.Configure(key.String(), peers); then the route loop is entered
Configure ==
    /\ pc = "Configure"
    /\ \/ /\ NoFault
          /\ wg' = wgConfigure(wg, key, peers)
          /\ LET nx == afterRouteAdd("nil", 0, Len(routes))
             IN  /\ pc' = nx.pc
                 /\ idx' = nx.idx
                 /\ applyErr' = nx.err
       \/ /\ CanFault
          /\ Fault
          /\ ReturnErr("fault")
          /\ UNCHANGED <<wg, idx>>
    /\ UNCHANGED <<planVars, classVars, provVars, sideVars, key, keyFile, generated, routeTable, calls>>

\* the route as the loop hands it to netlink.RouteAdd
Tagged(route) == [route EXCEPT !.LinkIndex = wg.Index]

\* netlink.RouteAdd (ip route add): EEXIST when the table already holds a
\* route to the destination
RouteAddResult(route, table) ==
    IF \E r \in table : r.Dst = route.Dst THEN "file exists" ELSE "nil"

\* one iteration of the route loop
RouteAdd ==
    /\ pc = "RouteAdd"
    /\ \E e \in {RouteAddResult(Tagged(routes[idx]), routeTable), "fault"} :
          /\ IF e = "fault"
             THEN /\ CanFault
                  /\ faults' = faults + 1
             ELSE UNCHANGED faults
          /\ routeTable' = IF e = "nil" THEN routeTable \cup {Tagged(routes[idx])}
                           ELSE routeTable
          /\ hist' = [hist EXCEPT !.tried = @ \cup {idx},
                                  !.failedAt = IF e = "nil" THEN @ ELSE idx,
                                  !.failErr = IF e = "nil" THEN @ ELSE e,
                                  !.faulted = @ \/ e = "fault"]
          /\ LET nx == afterRouteAdd(e, idx, Len(routes))
             IN  /\ pc' = nx.pc
                 /\ idx' = nx.idx
                 /\ applyErr' = nx.err
    /\ UNCHANGED <<planVars, classVars, provVars, sideVars, key, keyFile, generated, wg, calls>>

NextApply ==
    \/ Call
    \/ GetByName
    \/ LoadKey
    \/ GenerateKey
    \/ WgGetByName
    \/ SetAddrLinkLocal
    \/ SetAddrV4
    \/ Configure
    \/ RouteAdd

SpecApply == InitApply /\ [][NextApply]_vars

(***************************************************************************)
(* Properties of apply (checked under SpecApply).  hist records, for the   *)
(* running call: whether a fault made a step fail (faulted), whether a     *)
(* stored key failed to load (loadFailed), the routes handed to RouteAdd   *)
(* (tried) and the first one that failed (failedAt, failErr); and of the   *)
(* earlier calls: whether one returned nil (okBefore) and whether the      *)
(* previous one was failed by a fault (prevFaulted).                       *)
(***************************************************************************)
Undisturbed == ~hist.faulted /\ ~hist.loadFailed
Distinct(l) == \A j, k \in DOMAIN l : j # k => l[j] # l[k]

\* C7: once an apply of the plan has succeeded, a further apply of the same
\* plan that no fault disturbs returns no error, and the namespace never
\* holds two routes to one destination.
C7_ApplyIdempotent ==
    /\ \A r1, r2 \in routeTable : r1.Dst = r2.Dst => r1 = r2
    /\ (pc = "returned" /\ hist.okBefore /\ Undisturbed) => applyErr = "nil"

\* C8: an apply that a fault fails returns an error, and the next apply of
\* the same plan, undisturbed, succeeds whatever the failed run installed.
C8_RetryAfterFailure ==
    pc = "returned" =>
        /\ hist.faulted => applyErr # "nil"
        /\ (hist.prevFaulted /\ Undisturbed /\ Distinct(routes)) => applyErr = "nil"

\* C9: a key stored at the resource's key path is never replaced.
C9_KeyNeverOverwritten == [][keyFile # NoKey => keyFile' = keyFile]_vars

\* C10: when RouteAdd fails on a planned route, apply returns that error
\* and has attempted exactly the routes up to it; when apply returns nil,
\* every planned route was attempted and is in the route table with the
\* tunnel interface's index.
C10_RoutesNotBestEffort ==
    pc = "returned" =>
        /\ hist.failedAt # 0 =>
                /\ applyErr = hist.failErr
                /\ applyErr # "nil"
                /\ hist.tried = 1..hist.failedAt
        /\ applyErr = "nil" =>
                /\ hist.tried = 1..Len(routes)
                /\ \A k \in 1..Len(routes) :
                        [routes[k] EXCEPT !.LinkIndex = wg.Index] \in routeTable

C10_Witness ==
    /\ pc = "returned"
    /\ Len(routes) = 2
    /\ hist.failedAt = 1
    /\ applyErr = "fault"
    /\ hist.tried = {1}


(***************************************************************************)
(* The prefix classification on its own: publicPrefixes and hiddenPrefixes *)
(* applied to the resources of a network whose NodeIDs carry every         *)
(* combination of the three IPv4 and the three IPv6 reachability flags.    *)
(***************************************************************************)
AllNodeIDs ==
    { [ReachabilityV4 |-> v4, ReachabilityV6 |-> v6] :
        v4 \in {ReachabilityV4Unknown, ReachabilityV4Hidden, ReachabilityV4Public},
        v6 \in {ReachabilityV6Unknown, ReachabilityV6ULA, ReachabilityV6Public} }

ClassNetworks ==
    { [Resources    |-> [n \in 1..NPrefixes |-> ResourceFor(n, ids[n])],
       Exit         |-> ResourceFor(1, ids[1]),
       AllocationNR |-> 0] :
        ids \in [1..NPrefixes -> AllNodeIDs] }

InitClassify ==
    /\ ApplyIdle
    /\ ProvIdle
    /\ ClassIdle
    /\ SideIdle
    /\ network \in ClassNetworks
    /\ localResource = [NodeID    |-> network.Resources[1].NodeID,
                        Prefix    |-> network.Resources[1].Prefix,
                        LinkLocal |-> network.Resources[1].LinkLocal,
                        Peers     |-> <<>>]
    /\ strategy = "none"
    /\ peers = <<>>
    /\ routes = <<>>
    /\ err = "nil"

CallPublicPrefixes ==
    /\ "public" \notin output.called
    /\ output' = [output EXCEPT !.called = @ \cup {"public"},
                                !.public = publicPrefixes(network.Resources)]
    /\ UNCHANGED <<planVars, applyVars, provVars, sideVars>>

CallHiddenPrefixes ==
    /\ "hidden" \notin output.called
    /\ output' = [output EXCEPT !.called = @ \cup {"hidden"},
                                !.hidden = hiddenPrefixes(network.Resources)]
    /\ UNCHANGED <<planVars, applyVars, provVars, sideVars>>

NextClassify ==
    \/ CallPublicPrefixes
    \/ CallHiddenPrefixes

SpecClassify == InitClassify /\ [][NextClassify]_vars

\* C15: once both sets are computed, no prefix string is in both.
C15_PartitionDisjoint ==
    output.called = {"public", "hidden"} =>
        Range(output.public) \cap Range(output.hidden) = {}

\* a NodeID with either family flagged Public / flagged NAT-restricted,
\* read off the flags themselves
FlaggedPublic(id) ==
    id.ReachabilityV4 = ReachabilityV4Public \/ id.ReachabilityV6 = ReachabilityV6Public
FlaggedRestricted(id) ==
    id.ReachabilityV4 = ReachabilityV4Hidden \/ id.ReachabilityV6 = ReachabilityV6ULA
PrefixStringsOf(flagged(_)) ==
    {String(network.Resources[n].Prefix) :
        n \in {m \in DOMAIN network.Resources : flagged(network.Resources[m].NodeID)}}

\* C16: the public-prefix set holds exactly the prefixes of the resources
\* with either family flagged Public, the hidden-prefix set exactly those
\* with IPv4 hidden or IPv6 ULA-only, and a resource with neither flag is
\* in neither set.
C16_ClassificationExact ==
    /\ "public" \in output.called => Range(output.public) = PrefixStringsOf(FlaggedPublic)
    /\ "hidden" \in output.called => Range(output.hidden) = PrefixStringsOf(FlaggedRestricted)
    /\ output.called = {"public", "hidden"} =>
            \A n \in DOMAIN network.Resources :
                (~FlaggedPublic(network.Resources[n].NodeID)
                    /\ ~FlaggedRestricted(network.Resources[n].NodeID))
                => String(network.Resources[n].Prefix)
                        \notin Range(output.public) \cup Range(output.hidden)

\* both sets computed for a network with a public-only resource (public by
\* IPv6 alone), a restricted-only one and one that is neither
C16_Witness ==
    /\ output.called = {"public", "hidden"}
    /\ \E a, b, c \in DOMAIN network.Resources :
        /\ network.Resources[a].NodeID =
                [ReachabilityV4 |-> ReachabilityV4Unknown, ReachabilityV6 |-> ReachabilityV6Public]
        /\ network.Resources[b].NodeID =
                [ReachabilityV4 |-> ReachabilityV4Hidden, ReachabilityV6 |-> ReachabilityV6Unknown]
        /\ network.Resources[c].NodeID =
                [ReachabilityV4 |-> ReachabilityV4Unknown, ReachabilityV6 |-> ReachabilityV6Unknown]
        /\ String(network.Resources[a].Prefix) \in Range(output.public)
        /\ String(network.Resources[b].Prefix) \in Range(output.hidden)


(***************************************************************************)
(* Properties of prepareHidden and of the exit-hub plan, over SpecPlan.    *)
(***************************************************************************)
\* the resource of the network that owns a prefix has the flag
OwnerIs(prefix, flagged(_)) == \E r \in Owners(prefix) : flagged(r.NodeID)

\* C18 as stated: every route returned by prepareHidden has a destination
\* prefix in the hidden-prefix set of the network's resources.
C18_RoutesInHiddenPartition ==
    strategy = "prepareHidden" =>
        \A k \in DOMAIN routes : OwnerIs(routes[k].Dst, FlaggedRestricted)

\* C18 amended: every route returned by prepareHidden has a destination
\* prefix in the public-prefix set of the network's resources.
C18_RoutesInPublicPartition ==
    strategy = "prepareHidden" =>
        \A k \in DOMAIN routes : OwnerIs(routes[k].Dst, FlaggedPublic)

\* prepareHidden returned a route to a resource that is public and not
\* NAT-restricted
C18_Witness ==
    /\ strategy = "prepareHidden"
    /\ \E k \in DOMAIN routes :
        /\ OwnerIs(routes[k].Dst, FlaggedPublic)
        /\ ~OwnerIs(routes[k].Dst, FlaggedRestricted)

\* C19: prepareHidden plans nothing for a peer whose resource is not
\* Public: no returned peer has such a peer's key, no returned route has
\* its prefix as destination or its link-local address as gateway; and a
\* returned peer that carries an endpoint is one of the local resource's
\* peers whose resource is Public, with that peer's endpoint.
C19_NoLinkBetweenNATed ==
    strategy = "prepareHidden" =>
        /\ \A e \in Range(localResource.Peers) :
                ~OwnerIs(e.Prefix, FlaggedPublic) =>
                    /\ \A k \in DOMAIN peers : peers[k].PublicKey # e.Connection.Key
                    /\ \A k \in DOMAIN routes :
                            /\ routes[k].Dst # e.Prefix
                            /\ routes[k].Gw # LinkLocalOf(e.Prefix)
        /\ \A k \in DOMAIN peers :
                peers[k].Endpoint # NoEndpoint =>
                    \E e \in Range(localResource.Peers) :
                        /\ OwnerIs(e.Prefix, FlaggedPublic)
                        /\ peers[k].PublicKey = e.Connection.Key
                        /\ peers[k].Endpoint = <<e.Connection.IP, e.Connection.Port>>

\* a NAT-restricted local resource listing a tunnel peer that is public and
\* a tunnel peer that is NAT-restricted and not public: only the first is
\* planned
C19_Witness ==
    /\ strategy = "prepareHidden"
    /\ FlaggedRestricted(localResource.NodeID)
    /\ ~FlaggedPublic(localResource.NodeID)
    /\ Len(localResource.Peers) = 2
    /\ \A e \in Range(localResource.Peers) :
            e.Type = ConnTypeWireguard /\ e.Prefix # localResource.Prefix
    /\ OwnerIs(localResource.Peers[1].Prefix, FlaggedPublic)
    /\ ~OwnerIs(localResource.Peers[2].Prefix, FlaggedPublic)
    /\ OwnerIs(localResource.Peers[2].Prefix, FlaggedRestricted)
    /\ Len(peers) = 1
    /\ peers[1].Endpoint # NoEndpoint

\* the peers of the local resource an exit hub serves: tunnel type, not the
\* local resource itself, resource NAT-restricted
HubServes(e) ==
    /\ e.Type = ConnTypeWireguard
    /\ e.Prefix # localResource.Prefix
    /\ OwnerIs(e.Prefix, FlaggedRestricted)

\* the WireGuard peer expected for peer entry e, whose prefix is that of
\* resource n: fe80::<hex>/128 (the resource's link-local address),
\* 172.16.a.b/32 with a.b the two bytes of the prefix's last group, prefix
ExpectedHubPeer(e) ==
    LET n == CHOOSE m \in DOMAIN network.Resources : network.Resources[m].Prefix = e.Prefix
        g == e.Prefix.IP.hi[4]
    IN  [PublicKey  |-> e.Connection.Key,
         Endpoint   |-> NoEndpoint,
         AllowedIPs |-> << IPNet(network.Resources[n].LinkLocal.IP, 128, 128),
                           IPNet(IP4(172, 16, g \div 256, g % 256), 32, 32),
                           e.Prefix >>]

\* C20: the peers planned by the exit hub are, in peer-list order, one per
\* served peer entry, each with its three allowed-IPs and no endpoint;
\* the other entries produce nothing.
C20_ExitHubPeers ==
    strategy = "configureExitNetNR" =>
        LET served == SelectSeq(localResource.Peers, HubServes)
        IN  /\ Len(peers) = Len(served)
            /\ \A k \in DOMAIN peers : peers[k] = ExpectedHubPeer(served[k])

\* two different served peers planned in order
C20_Witness ==
    /\ strategy = "configureExitNetNR"
    /\ Len(peers) = 2
    /\ peers[1].PublicKey # peers[2].PublicKey
    /\ peers[1].PublicKey = localResource.Peers[1].Connection.Key

\* an entry of another type and a public-only tunnel entry are skipped
C20_WitnessSkipped ==
    /\ strategy = "configureExitNetNR"
    /\ Len(localResource.Peers) = 2
    /\ localResource.Peers[1].Type = ConnTypeOther
    /\ HubServes(localResource.Peers[2])
    /\ Len(peers) = 1


(***************************************************************************)
(* createNetworkResource.  Two resources of the network, 1 and 2, are      *)
(* provisioned on one host, each by its own sequence of calls; run[r] is   *)
(* the call for resource r (its position, its locals and what it did) and  *)
(* host is what exists on the host: the bridges and the named namespaces,  *)
(* the links with the namespace each is in ("host", "public" or a named    *)
(* namespace), the addresses, the bridge ports, and whether the public     *)
(* namespace exists.  The steps of the two calls interleave.  A step may   *)
(* fail for a reason of the host's (at most MaxFaults times in all); the   *)
(* deferred Close calls are taken to succeed.                              *)
(***************************************************************************)
Runs == {1, 2}
PublicNamespace == "public"
HostNamespace == "host"

\* the names of the Nibble: one token per prefix, prefixed by the kind
NetworkName(prefix) == <<"net", Hex(prefix)>>
BridgeName(prefix) == <<"br", Hex(prefix)>>
WiregardName(prefix) == <<"wg", Hex(prefix)>>
VethName(prefix) == <<"veth", Hex(prefix)>>

\* the locals of createNetworkResource with one tunnel name for all resources
namesSharedTunnel(res) ==
    [netnsName  |-> NetworkName(res.Prefix),
     bridgeName |-> BridgeName(res.Prefix),
     wgName     |-> <<"wg", 0>>,
     vethName   |-> VethName(res.Prefix)]

\* the locals netnsName, bridgeName, wgName, vethName
names(res) ==
    [netnsName  |-> NetworkName(res.Prefix),
     bridgeName |-> BridgeName(res.Prefix),
     wgName     |-> WiregardName(res.Prefix),
     vethName   |-> VethName(res.Prefix)]

Res(r) == network.Resources[r]
Link(name, nsName) == [name |-> name, ns |-> nsName]

\* the names ip.SetupVeth draws the host end's name from: a random one
\* that is not in use in the host namespace
HostVethNames == {<<"vethhost", k>> : k \in 1..2}
FreeHostVethNames(h) ==
    {n \in HostVethNames : Link(n, HostNamespace) \notin h.links}

\* the addresses of the namespace-side veth end: the prefix and 10.a.b.1/24
VethAddrs(res) ==
    << res.Prefix,
       IPNet(IP4(10, ToV4(res.Prefix).a, ToV4(res.Prefix).b, 1), 24, 32) >>

\* the OS objects of a host, by kind and name
Objects(h) ==
    {<<"bridge", b>> : b \in h.bridges}
        \cup {<<"netns", n>> : n \in h.netns}
        \cup {<<"forwarding", n>> : n \in h.forwarding}
        \cup {<<"link", l.name>> : l \in h.links}
        \cup {<<"addr", a>> : a \in h.addrs}
        \cup {<<"port", x>> : x \in h.attached}

\* bridge.New: an existing bridge is reused
bridgeNew(name, h) == [h EXCEPT !.bridges = @ \cup {name}]

\* namespace.Create: fails when the named namespace exists
namespaceCreateErr(name, h) == IF name \in h.netns THEN "file exists" ELSE "nil"
namespaceCreate(name, h) == [h EXCEPT !.netns = @ \cup {name}]

\* wireguard.New: a link of type wireguard in the current namespace; the
\* kernel refuses a name in use in that namespace
linkAddErr(name, nsName, h) ==
    IF Link(name, nsName) \in h.links THEN "file exists" ELSE "nil"
wireguardNew(name, nsName, h) == [h EXCEPT !.links = @ \cup {Link(name, nsName)}]

\* netlink.LinkByName then netlink.LinkSetNsFd: the link of that name in
\* the current namespace moves to the target namespace; no such link, or
\* the name in use in the target namespace, is an error
linkSetNsErr(name, from, to, h) ==
    IF Link(name, from) \notin h.links THEN "Link not found"
    ELSE IF Link(name, to) \in h.links THEN "file exists"
    ELSE "nil"
linkSetNs(name, from, to, h) ==
    [h EXCEPT !.links = (@ \ {Link(name, from)}) \cup {Link(name, to)}]

\* "if err != nil { return err }" after a step, continuing regardless
stepResultBestEffort(e, next) == [pc |-> next, err |-> "nil"]

\* "if err != nil { return err }" after a step
stepResult(e, next) ==
    IF e # "nil" THEN [pc |-> "returned", err |-> e]
    ELSE [pc |-> next, err |-> "nil"]

\* the namespace the tunnel interface is created in: always the host's
wgBirthplaceHost(publicExists) == HostNamespace

\* the namespace the tunnel interface is created in
wgBirthplace(publicExists) ==
    IF publicExists THEN PublicNamespace ELSE HostNamespace

TotalCalls == run[1].calls + run[2].calls

InitProvision ==
    /\ ApplyIdle
    /\ ClassIdle
    /\ SideIdle
    /\ network = ApplyNetwork
    /\ localResource = [NodeID    |-> network.Resources[1].NodeID,
                        Prefix    |-> network.Resources[1].Prefix,
                        LinkLocal |-> network.Resources[1].LinkLocal,
                        Peers     |-> <<>>]
    /\ strategy = "none"
    /\ peers = <<>>
    /\ routes = <<>>
    /\ err = "nil"
    /\ run = [r \in Runs |-> NoRun]
    /\ \E p \in BOOLEAN : host = [NoHost EXCEPT !.public = p]

ProvUnchanged == UNCHANGED <<planVars, callVars, osVars, calls, hist, classVars, sideVars>>

\* createNetworkResource is called for resource r (again, once its earlier
\* call has returned)
CallCreate(r) ==
    /\ run[r].pc \in {"idle", "returned"}
    /\ TotalCalls < MaxCalls
    /\ run' = [run EXCEPT ![r] =
                [NoRun EXCEPT !.pc = "bridge",
                              !.calls = run[r].calls + 1,
                              !.existed = names(Res(r)).netnsName \in host.netns]]
    /\ UNCHANGED <<host, faults>>
    /\ ProvUnchanged

\* One step of the call for resource r, at position from: the step fails
\* with the error e of the operation, or for a reason of the host's, or
\* succeeds, leaving the host as h and the call's record as ok.
Step(r, from, next, e, h, ok) ==
    /\ run[r].pc = from
    /\ \E f \in (IF e = "nil" /\ CanFault THEN BOOLEAN ELSE {FALSE}) :
        LET failure == IF f THEN "fault" ELSE e
            res == stepResult(failure, next)
            me == IF failure = "nil" THEN ok ELSE run[r]
        IN  /\ run' = [run EXCEPT ![r] =
                        [me EXCEPT !.pc = res.pc,
                                   !.err = res.err,
                                   !.done = @ \cup {from},
                                   !.failed = IF failure # "nil" /\ @ = "none"
                                              THEN from ELSE @,
                                   !.faulted = @ \/ f]]
            /\ host' = IF failure = "nil" THEN h ELSE host
            /\ faults' = IF f THEN faults + 1 ELSE faults
    /\ ProvUnchanged

Making(r, objs) == [run[r] EXCEPT !.made = @ \cup (objs \ Objects(host))]

BridgeNew(r) ==
    LET n == names(Res(r))
    IN  Step(r, "bridge", "namespace", "nil",
             bridgeNew(n.bridgeName, host),
             Making(r, {<<"bridge", n.bridgeName>>}))

\* NamespaceCreate taking an existing namespace as its own
NamespaceCreateReusing(r) ==
    LET n == names(Res(r))
    IN  Step(r, "namespace", "sysctl", "nil",
             namespaceCreate(n.netnsName, host),
             Making(r, {<<"netns", n.netnsName>>}))

NamespaceCreate(r) ==
    LET n == names(Res(r))
    IN  Step(r, "namespace", "sysctl", namespaceCreateErr(n.netnsName, host),
             namespaceCreate(n.netnsName, host),
             Making(r, {<<"netns", n.netnsName>>}))

\* sysctl net.ipv6.conf.all.forwarding = 1, inside the resource's namespace
Sysctl(r) ==
    LET n == names(Res(r))
    IN  Step(r, "sysctl", "veth", "nil",
             [host EXCEPT !.forwarding = @ \cup {n.netnsName}],
             Making(r, {<<"forwarding", n.netnsName>>}))

\* ip.SetupVeth inside the resource's namespace: the end named vethName
\* stays there, the other end gets a free name and goes to the host
\* namespace; hostIface.Name is that name
SetupVeth(r) ==
    LET n == names(Res(r))
    IN  \E hv \in FreeHostVethNames(host) :
            Step(r, "veth", "addr6", linkAddErr(n.vethName, n.netnsName, host),
                 [host EXCEPT !.links = @ \cup {Link(n.vethName, n.netnsName),
                                                Link(hv, HostNamespace)}],
                 [Making(r, {<<"link", n.vethName>>, <<"link", hv>>})
                    EXCEPT !.hostIface = hv])

\* netlink.AddrAdd of address k of the loop on the namespace-side veth end
AddrAdd(r, k, from, next) ==
    LET n == names(Res(r))
        a == [link |-> Link(n.vethName, n.netnsName), addr |-> VethAddrs(Res(r))[k]]
    IN  Step(r, from, next,
             IF Link(n.vethName, n.netnsName) \notin host.links THEN "Link not found"
             ELSE IF a \in host.addrs THEN "file exists" ELSE "nil",
             [host EXCEPT !.addrs = @ \cup {a}],
             Making(r, {<<"addr", a>>}))

AddrAddV6(r) == AddrAdd(r, 1, "addr6", "addr4")
AddrAddV4(r) == AddrAdd(r, 2, "addr4", "attach")

\* netlink.LinkByName(hostIface.Name) in the host namespace, bridge.AttachNic
AttachNic(r) ==
    LET n == names(Res(r))
        x == <<run[r].hostIface, n.bridgeName>>
    IN  Step(r, "attach", "wg",
             IF Link(run[r].hostIface, HostNamespace) \notin host.links
             THEN "Link not found" ELSE "nil",
             [host EXCEPT !.attached = @ \cup {x}],
             Making(r, {<<"port", x>>}))

\* wireguard.New(wgName) in the public namespace when it exists (and then
\* the move to the host namespace comes next), in the host namespace
\* otherwise
WireguardNew(r) ==
    LET n == names(Res(r))
        where == wgBirthplace(host.public)
    IN  Step(r, "wg", IF where = PublicNamespace THEN "tohost" ELSE "tons",
             linkAddErr(n.wgName, where, host),
             wireguardNew(n.wgName, where, host),
             [Making(r, {<<"link", n.wgName>>}) EXCEPT !.bornIn = where])

\* inside pubNS.Do: netlink.LinkSetNsFd(wg, hostNS.Fd())
MoveToHost(r) ==
    LET n == names(Res(r))
    IN  Step(r, "tohost", "tons",
             linkSetNsErr(n.wgName, PublicNamespace, HostNamespace, host),
             linkSetNs(n.wgName, PublicNamespace, HostNamespace, host),
             [run[r] EXCEPT !.moved = @ \cup {n.wgName}])

\* netlink.LinkByName(wgName), netlink.LinkSetNsFd(wg, netResNS.Fd()),
\* return nil
MoveToResource(r) ==
    LET n == names(Res(r))
    IN  Step(r, "tons", "returned",
             linkSetNsErr(n.wgName, HostNamespace, n.netnsName, host),
             linkSetNs(n.wgName, HostNamespace, n.netnsName, host),
             [run[r] EXCEPT !.moved = @ \cup {n.wgName}])

NextProvision ==
    \/ \E r \in Runs : CallCreate(r)
    \/ \E r \in Runs : BridgeNew(r)
    \/ \E r \in Runs : NamespaceCreate(r)
    \/ \E r \in Runs : Sysctl(r)
    \/ \E r \in Runs : SetupVeth(r)
    \/ \E r \in Runs : AddrAddV6(r)
    \/ \E r \in Runs : AddrAddV4(r)
    \/ \E r \in Runs : AttachNic(r)
    \/ \E r \in Runs : WireguardNew(r)
    \/ \E r \in Runs : MoveToHost(r)
    \/ \E r \in Runs : MoveToResource(r)

SpecProvision == InitProvision /\ [][NextProvision]_vars


(***************************************************************************)
(* Properties of createNetworkResource, over SpecProvision.                *)
(***************************************************************************)
OwnNetns(r) == <<"net", Hex(Res(r).Prefix)>>
OwnBridge(r) == <<"br", Hex(Res(r).Prefix)>>
OwnTunnel(r) == <<"wg", Hex(Res(r).Prefix)>>
OwnVeth(r) == <<"veth", Hex(Res(r).Prefix)>>
Returned(r) == run[r].pc = "returned"
Succeeded(r) == Returned(r) /\ run[r].err = "nil"
NamespacesOf(linkName) == {l.ns : l \in {x \in host.links : x.name = linkName}}

\* C11: the tunnel interface is created in the public namespace exactly
\* when the host has one and in the host namespace otherwise, and when a
\* call has returned nil the tunnel interface is in the resource's
\* namespace and in no other.
C11_TunnelPlacement ==
    \A r \in Runs :
        /\ run[r].bornIn # "nowhere" =>
                /\ run[r].bornIn = PublicNamespace <=> host.public
                /\ run[r].bornIn = HostNamespace <=> ~host.public
        /\ Succeeded(r) =>
                /\ run[r].bornIn # "nowhere"
                /\ NamespacesOf(OwnTunnel(r)) = {OwnNetns(r)}

\* a call on a host with a public namespace returned nil: the tunnel was
\* created in the public namespace and is now in the resource's
C11_Witness ==
    \E r \in Runs :
        /\ host.public
        /\ Succeeded(r)
        /\ run[r].bornIn = PublicNamespace
        /\ run[r].moved = {OwnTunnel(r)}
        /\ NamespacesOf(OwnTunnel(r)) = {OwnNetns(r)}

\* the same on a host without a public namespace
C11_WitnessHost ==
    \E r \in Runs :
        /\ ~host.public
        /\ Succeeded(r)
        /\ run[r].bornIn = HostNamespace

\* C12: a call made while the resource's namespace exists goes no further
\* than namespace creation, returns an error (the one of namespace
\* creation unless the host failed the call before), and creates or moves
\* no veth pair, address, bridge port or tunnel interface.
C12_ExistingNamespaceFails ==
    \A r \in Runs :
        run[r].existed =>
            /\ run[r].pc \in {"bridge", "namespace", "returned"}
            /\ run[r].done \subseteq {"bridge", "namespace"}
            /\ Returned(r) =>
                    /\ run[r].err # "nil"
                    /\ ~run[r].faulted =>
                            run[r].failed = "namespace" /\ run[r].err = "file exists"
            /\ run[r].made = {}
            /\ run[r].moved = {}
            /\ run[r].hostIface = <<>>
            /\ run[r].bornIn = "nowhere"

\* a call made after an earlier one got as far as the veth pair has failed
\* at namespace creation
C12_Witness ==
    \E r \in Runs :
        /\ run[r].existed
        /\ Returned(r)
        /\ run[r].done = {"bridge", "namespace"}
        /\ run[r].failed = "namespace"
        /\ run[r].err = "file exists"
        /\ \E l \in host.links : l = Link(OwnVeth(r), OwnNetns(r))

\* C13: a call of createNetworkResource made again for a resource, after
\* an earlier call for it succeeded or failed partway, returns nil when
\* the host fails none of its steps.
C13_ProvisionIdempotent ==
    \A r \in Runs :
        (run[r].calls >= 2 /\ Returned(r) /\ ~run[r].faulted) => run[r].err = "nil"

\* the steps of a call in their order, on a host with or without a public
\* namespace
StepOrder ==
    <<"bridge", "namespace", "sysctl", "veth", "addr6", "addr4", "attach", "wg">>
        \o (IF host.public THEN <<"tohost">> ELSE <<>>) \o <<"tons">>
StepsThrough(step) ==
    {StepOrder[k] : k \in {j \in DOMAIN StepOrder :
                                \E i \in j..Len(StepOrder) : StepOrder[i] = step}}

Own(r) ==
    {<<"bridge", OwnBridge(r)>>, <<"netns", OwnNetns(r)>>,
     <<"forwarding", OwnNetns(r)>>, <<"link", OwnVeth(r)>>,
     <<"link", OwnTunnel(r)>>, <<"link", run[r].hostIface>>,
     <<"port", <<run[r].hostIface, OwnBridge(r)>> >>}
        \cup {<<"addr", a>> : a \in {x \in host.addrs :
                                        x.link = Link(OwnVeth(r), OwnNetns(r))}}

\* C17: when the first calls for the two resources have both returned and
\* the host failed no step of either, both returned nil, each tunnel
\* interface and namespace-side veth end is in its own resource's
\* namespace only, the host-side veth ends differ, and each call created
\* and moved only objects of its own resource.
C17_ProvisionedIndependently ==
    (\A r \in Runs : Returned(r) /\ run[r].calls = 1 /\ ~run[r].faulted) =>
        /\ \A r \in Runs :
                /\ run[r].err = "nil"
                /\ NamespacesOf(OwnTunnel(r)) = {OwnNetns(r)}
                /\ NamespacesOf(OwnVeth(r)) = {OwnNetns(r)}
                /\ NamespacesOf(run[r].hostIface) = {HostNamespace}
                /\ run[r].made \subseteq Own(r)
                /\ run[r].moved \subseteq {OwnTunnel(r)}
        /\ run[1].hostIface # run[2].hostIface
        /\ \A r \in Runs : run[r].made \cap run[3 - r].made = {}

\* both first calls returned nil, on a host with a public namespace
C17_Witness ==
    /\ host.public
    /\ \A r \in Runs : Succeeded(r) /\ run[r].calls = 1 /\ ~run[r].faulted
    /\ \A r \in Runs : NamespacesOf(OwnTunnel(r)) = {OwnNetns(r)}


(***************************************************************************)
(* Properties of preparePublic, over SpecPlan.                             *)
(***************************************************************************)
\* the peer entries preparePublic plans a WireGuard peer for, and those it
\* plans a route for
MeshPeer(e) == e.Type = ConnTypeWireguard /\ e.Prefix # localResource.Prefix
RoutedPeer(e) == MeshPeer(e) /\ e.Prefix # network.Exit.Prefix
LinkLocalIPOfOwner(prefix) ==
    (CHOOSE r \in Owners(prefix) : TRUE).LinkLocal.IP

\* C21: preparePublic returns, in peer-list order, one WireGuard peer for
\* every tunnel peer entry other than the local resource and one route, to
\* the peer's prefix via its link-local address, for every such entry whose
\* prefix is not the Exit's; no route has the Exit's prefix as destination.
C21_PublicPlan ==
    strategy = "preparePublic" =>
        LET meshed == SelectSeq(localResource.Peers, MeshPeer)
            routed == SelectSeq(localResource.Peers, RoutedPeer)
        IN  /\ Len(peers) = Len(meshed)
            /\ \A k \in DOMAIN peers :
                    /\ peers[k].PublicKey = meshed[k].Connection.Key
                    /\ peers[k].AllowedIPs[3] = meshed[k].Prefix
            /\ Len(routes) = Len(routed)
            /\ \A k \in DOMAIN routes :
                    /\ routes[k].Dst = routed[k].Prefix
                    /\ routes[k].Gw = LinkLocalIPOfOwner(routed[k].Prefix)
            /\ \A k \in DOMAIN routes : routes[k].Dst # network.Exit.Prefix

\* a local resource that is not the Exit, listing the Exit and another
\* resource as tunnel peers: two WireGuard peers, one route
C21_Witness ==
    /\ strategy = "preparePublic"
    /\ ~LocalIsExit
    /\ Len(localResource.Peers) = 2
    /\ localResource.Peers[1].Prefix = network.Exit.Prefix
    /\ RoutedPeer(localResource.Peers[2])
    /\ MeshPeer(localResource.Peers[1])
    /\ Len(peers) = 2
    /\ Len(routes) = 1


(***************************************************************************)
(* The plan of a non-exit node: the role plan (preparePublic or            *)
(* prepareHidden) followed by the default-route plan (prepareNonExitNode), *)
(* the peers and the routes of the two concatenated.  The local resource   *)
(* is resource 1 and the Exit is resource 2.                               *)
(***************************************************************************)
ComposeNetworks ==
    { [Resources    |-> [n \in 1..NPrefixes |-> ResourceFor(n, ids[n])],
       Exit         |-> ResourceFor(2, ids[2]),
       AllocationNR |-> 0] :
        ids \in [1..NPrefixes -> NodeIDs] }

InitCompose ==
    /\ ApplyIdle
    /\ ClassIdle
    /\ ProvIdle
    /\ SideIdle
    /\ network \in ComposeNetworks
    /\ localResource \in LocalResources(network, 1)
    /\ strategy = "none"
    /\ peers = <<>>
    /\ routes = <<>>
    /\ err = "nil"

\* the role plan, then the default-route plan appended to it; the error of
\* either is returned
concatPlans(role, exit) ==
    IF role.err # "nil" THEN [peers |-> <<>>, routes |-> <<>>, err |-> role.err]
    ELSE IF exit.err # "nil" THEN [peers |-> <<>>, routes |-> <<>>, err |-> exit.err]
    ELSE [peers  |-> role.peers \o exit.peers,
          routes |-> role.routes \o exit.routes,
          err    |-> "nil"]

CallPublicThenNonExit ==
    Return("preparePublic+prepareNonExitNode",
           concatPlans(preparePublic(localResource, network),
                       prepareNonExitNode(localResource, network)))

CallHiddenThenNonExit ==
    Return("prepareHidden+prepareNonExitNode",
           concatPlans(prepareHidden(localResource, network),
                       prepareNonExitNode(localResource, network)))

NextCompose ==
    \/ CallPublicThenNonExit
    \/ CallHiddenThenNonExit

SpecCompose == InitCompose /\ [][NextCompose]_vars

\* C23: for a non-exit local resource that lists the Exit, the
\* concatenated peer list has no two entries with the same public key.
C23_NoDuplicatePeerKey ==
    (strategy # "none" /\ err = "nil" /\ ~LocalIsExit /\ ListsExit) =>
        \A j, k \in DOMAIN peers : j # k => peers[j].PublicKey # peers[k].PublicKey


(***************************************************************************)
(* The order of the steps of apply, over SpecApply.                        *)
(***************************************************************************)
InsideNamespace ==
    pc \in {"wgGetByName", "SetAddrLinkLocal", "SetAddrV4", "Configure", "RouteAdd"}
TunnelAddrs ==
    {localResource.LinkLocal,
     IPNet(IP4(172, 16, localResource.Prefix.IP.hi[4] \div 256,
                        localResource.Prefix.IP.hi[4] % 256), 16, 32)}

\* what holds of every state: inside the namespace the key is resolved; an
\* interface that has a private key has both addresses and the full planned
\* peer list, one that has none has the peers it had before apply (none);
\* routes are in the table only once the interface is configured
ApplyOrderInv ==
    /\ InsideNamespace => key # NoKey
    /\ wg.PrivateKey # NoKey => (TunnelAddrs \subseteq wg.Addrs /\ wg.Peers = peers)
    /\ wg.PrivateKey = NoKey => (wg.Peers = <<>> /\ routeTable = {})

\* what holds of every step: the key and the peers of the interface change
\* together, in the step Configure, to the call's key and the planned list;
\* the route loop is entered from that step only, and the route table
\* changes in the route loop only
ApplyOrderStep ==
    /\ (wg.Peers' # wg.Peers \/ wg.PrivateKey' # wg.PrivateKey) =>
            /\ pc = "Configure"
            /\ wg.PrivateKey' = key
            /\ wg.Peers' = peers
            /\ TunnelAddrs \subseteq wg.Addrs
    /\ (pc' = "RouteAdd" /\ pc # "RouteAdd") =>
            (pc = "Configure" /\ wg.PrivateKey' = key /\ wg.Peers' = peers)
    /\ routeTable' # routeTable => pc = "RouteAdd"
    /\ key' # key => pc \in {"idle", "returned", "LoadKey", "GenerateKey"}

\* C22: in apply the key is resolved before the namespace is entered, both
\* addresses are assigned before the interface is configured, the private
\* key and the full planned peer list are set in one step, no route is
\* installed before that step succeeded, and the interface's peers are
\* always those from before apply or the full planned list.
C22_ApplyOrder == []ApplyOrderInv /\ [][ApplyOrderStep]_vars

\* an apply that returned nil with a planned peer and routes installed
C22_Witness ==
    /\ pc = "returned"
    /\ applyErr = "nil"
    /\ peers # <<>>
    /\ wg.Peers = peers
    /\ wg.PrivateKey = key
    /\ TunnelAddrs \subseteq wg.Addrs
    /\ routeTable # {}


(***************************************************************************)
(* Two nodes of one network: resource 1 (public, the Exit) plans its       *)
(* peers with preparePublic, and resource 2, one of them, applies its own  *)
(* plan with configWG.  The link-local address of a resource is a field of *)
(* the network definition the nodes receive; it is the fe80::<hex> of the  *)
(* resource's prefix or another link-local address.                        *)
(***************************************************************************)
LinkLocals(n) ==
    {IPNet(LinkLocalOf(PrefixOf(n)), 64, 128), IPNet(IP6(<<65152, 0, 0, 0>>, 1), 64, 128)}

AgreeNetworks ==
    { [ApplyNetwork EXCEPT !.Resources[2].LinkLocal = ll] : ll \in LinkLocals(2) }

\* resource 1 as the local resource of the planning node
PlanningResource ==
    [NodeID    |-> network.Resources[1].NodeID,
     Prefix    |-> network.Resources[1].Prefix,
     LinkLocal |-> network.Resources[1].LinkLocal,
     Peers     |-> [k \in 1..MaxPeers |-> PeerFor(k + 1, ConnTypeWireguard)]]

InitAgree ==
    /\ ClassIdle
    /\ ProvIdle
    /\ network \in AgreeNetworks
    /\ localResource = [NodeID    |-> network.Resources[2].NodeID,
                        Prefix    |-> network.Resources[2].Prefix,
                        LinkLocal |-> network.Resources[2].LinkLocal,
                        Peers     |-> <<>>]
    /\ strategy = "configWG"
    /\ peers \in PlanPeers
    /\ routes = <<RouteVia(PeerFor(1, ConnTypeWireguard))>>
    /\ err = "nil"
    /\ pc = "idle"
    /\ key = NoKey
    /\ idx = 0
    /\ applyErr = "nil"
    /\ keyFile = NoKey
    /\ generated = 0
    /\ wg = [Index |-> 3, Addrs |-> {}, PrivateKey |-> NoKey, Peers |-> <<>>]
    /\ routeTable = {}
    /\ calls = 0
    /\ faults = 0
    /\ hist = NoHist
    /\ remote = <<>>
    /\ race = <<>>
    /\ zdb = <<>>
    /\ mon = <<>>

\* the planning node calls preparePublic
PlanRemote ==
    /\ remote = <<>>
    /\ remote' = preparePublic(PlanningResource, network)
    /\ UNCHANGED <<planVars, applyVars, classVars, provVars, race, zdb, mon>>

NextAgree ==
    \/ PlanRemote
    \/ NextApply

SpecAgree == InitAgree /\ [][NextAgree]_vars

AssignedIPs == {a.IP : a \in wg.Addrs}
BothAssigned == \E a, b \in wg.Addrs : a.IP.v = 6 /\ b.IP.v = 4

\* C24: once the applying resource has assigned its two addresses and the
\* planning resource has its plan, the link-local address (allowed-IP and
\* route gateway) and the 172.16.a.b address the plan uses for the applying
\* resource are addresses assigned to its tunnel interface.
C24_AddressAgreement ==
    (remote # <<>> /\ BothAssigned) =>
        /\ \A k \in DOMAIN remote.peers :
                remote.peers[k].AllowedIPs[3] = localResource.Prefix =>
                    /\ remote.peers[k].AllowedIPs[1].IP \in AssignedIPs
                    /\ remote.peers[k].AllowedIPs[2].IP \in AssignedIPs
        /\ \A k \in DOMAIN remote.routes :
                remote.routes[k].Dst = localResource.Prefix =>
                    remote.routes[k].Gw \in AssignedIPs

\* the same for a network whose link-local fields are the fe80::<hex> of
\* the prefixes
C24_AgreementWhenDerived ==
    localResource.LinkLocal.IP = LinkLocalOf(localResource.Prefix) => C24_AddressAgreement


(***************************************************************************)
(* Two calls of configWG for one resource running together, no key stored  *)
(* at the resource's key path.  race[c] is call c: its position and its    *)
(* local key; the key file and the tunnel interface are shared.  The plan  *)
(* has no routes, and no step fails.  The lookups (namespace.GetByName,    *)
(* wireguard.GetByName) change nothing and are part of the step after.     *)
(***************************************************************************)
Callers == {1, 2}

InitRace ==
    /\ ClassIdle
    /\ ProvIdle
    /\ network = ApplyNetwork
    /\ localResource = [NodeID    |-> network.Resources[2].NodeID,
                        Prefix    |-> network.Resources[2].Prefix,
                        LinkLocal |-> network.Resources[2].LinkLocal,
                        Peers     |-> <<>>]
    /\ strategy = "configWG"
    /\ peers \in PlanPeers
    /\ routes = <<>>
    /\ err = "nil"
    /\ pc = "idle"
    /\ key = NoKey
    /\ idx = 0
    /\ applyErr = "nil"
    /\ keyFile = NoKey
    /\ generated = 0
    /\ wg \in {[Index |-> i, Addrs |-> {}, PrivateKey |-> NoKey, Peers |-> <<>>] : i \in {3, 7}}
    /\ routeTable = {}
    /\ calls = 0
    /\ faults = 0
    /\ hist = NoHist
    /\ remote = <<>>
    /\ race = [c \in Callers |-> [pc |-> "LoadKey", key |-> NoKey]]
    /\ zdb = <<>>
    /\ mon = <<>>

RaceUnchanged ==
    UNCHANGED <<planVars, callVars, routeTable, calls, faults, hist,
                classVars, provVars, remote, zdb, mon>>

\* key, err = wireguard.LoadKey(storagePath)
RaceLoadKey(c) ==
    /\ race[c].pc = "LoadKey"
    /\ LET r == wireguardLoadKey(keyFile, FALSE)
       IN  race' = [race EXCEPT ![c].key = r.key,
                                ![c].pc = IF r.err # "nil" THEN "GenerateKey"
                                          ELSE "SetAddrLinkLocal"]
    /\ UNCHANGED <<keyFile, generated, wg>>
    /\ RaceUnchanged

\* key, err = wireguard.GenerateKey(storagePath)
RaceGenerateKey(c) ==
    /\ race[c].pc = "GenerateKey"
    /\ generated' = generated + 1
    /\ keyFile' = wireguardGenerateKey(generated).file
    /\ race' = [race EXCEPT ![c].key = wireguardGenerateKey(generated).key,
                            ![c].pc = "SetAddrLinkLocal"]
    /\ UNCHANGED wg
    /\ RaceUnchanged

RaceSetAddrLinkLocal(c) ==
    /\ race[c].pc = "SetAddrLinkLocal"
    /\ wg' = wgSetAddr(wg, localResource.LinkLocal)
    /\ race' = [race EXCEPT ![c].pc = "SetAddrV4"]
    /\ UNCHANGED <<keyFile, generated>>
    /\ RaceUnchanged

RaceSetAddrV4(c) ==
    /\ race[c].pc = "SetAddrV4"
    /\ wg' = wgSetAddr(wg, IPNet(IP4(172, 16, ToV4(localResource.Prefix).a,
                                     ToV4(localResource.Prefix).b), 16, 32))
    /\ race' = [race EXCEPT ![c].pc = "Configure"]
    /\ UNCHANGED <<keyFile, generated>>
    /\ RaceUnchanged

\* wg.Configure(key.String(), wgPeers); no routes, return nil
RaceConfigure(c) ==
    /\ race[c].pc = "Configure"
    /\ wg' = wgConfigure(wg, race[c].key, peers)
    /\ race' = [race EXCEPT ![c].pc = afterRouteAdd("nil", 0, Len(routes)).pc]
    /\ UNCHANGED <<keyFile, generated>>
    /\ RaceUnchanged

NextRace ==
    \/ \E c \in Callers : RaceLoadKey(c)
    \/ \E c \in Callers : RaceGenerateKey(c)
    \/ \E c \in Callers : RaceSetAddrLinkLocal(c)
    \/ \E c \in Callers : RaceSetAddrV4(c)
    \/ \E c \in Callers : RaceConfigure(c)

SpecRace == InitRace /\ [][NextRace]_vars

\* C25: when both calls have returned, the private key of the interface is
\* the key stored at the key path, and both calls used that key.
C25_OneKeyAfterRace ==
    (\A c \in Callers : race[c].pc = "returned") =>
        /\ wg.PrivateKey = keyFile
        /\ \A c \in Callers : race[c].key = keyFile


(***************************************************************************)
(* pkg/storage: Allocate2 and Claim.  The module's pools (s.volumes) are a *)
(* list; a pool has a device type, a size, and a list of volumes; a volume *)
(* has a name, a path, a size (its limit, what Usage reports; 0 is no      *)
(* limit) and, when it is a zdb volume, namespaces, each a directory with  *)
(* an .info file holding its size.  Sizes are uint64 in the code and       *)
(* integers modulo 2^WordBits here.  Reads of the filesystem succeed.      *)
(***************************************************************************)
WordBits == 4
Word == 2 ^ WordBits
U(x) == x % Word

SSDDevice == "ssd"
HDDDevice == "hdd"
zdbPoolPrefix == "zdb"

Volume(prefix, n, size, nss) ==
    [Name |-> <<prefix, n>>, Path |-> <<"/mnt", prefix, n>>, Size |-> size, Namespaces |-> nss]
isZdbVolume(volume) == volume.Name[1] = zdbPoolPrefix

\* zdbNamespaces.Total
RECURSIVE SumSizes(_)
SumSizes(nss) ==
    IF nss = {} THEN 0
    ELSE LET n == CHOOSE x \in nss : TRUE
         IN  U(n.Size + SumSizes(nss \ {n}))
Total(volume) == SumSizes(volume.Namespaces)

HasNamespace(volume, nsID) == \E n \in volume.Namespaces : n.ID = nsID

\* the zero Allocation: two empty strings
EmptyString == <<>>
NoAllocation == [VolumeID |-> EmptyString, VolumePath |-> EmptyString]
AllocationOf(volume) == [VolumeID |-> volume.Name, VolumePath |-> volume.Path]

\* the places (pool, volume) of the pools, and the first place, in the order
\* of the two nested loops, that satisfies a test
Places(pools) ==
    {<<p, v>> : p \in DOMAIN pools, v \in 1..MaxOps + 2} \cap
        UNION {{<<p, v>> : v \in DOMAIN pools[p].Volumes} : p \in DOMAIN pools}
Before(a, b) == a[1] < b[1] \/ (a[1] = b[1] /\ a[2] < b[2])
FirstPlace(pools, T(_, _)) ==
    LET hits == {x \in Places(pools) : T(pools[x[1]], pools[x[1]].Volumes[x[2]])}
    IN  IF hits = {} THEN <<0, 0>>
        ELSE CHOOSE x \in hits : \A y \in hits : y = x \/ Before(x, y)

\* s.createSubvol(size, name, diskType): a new volume limited to size in
\* the first pool of the type with that much unreserved space
Reserved(pool) == SumSizes({[ID |-> k, Size |-> pool.Volumes[k].Size] : k \in DOMAIN pool.Volumes})
createSubvol(pools, size, name, diskType) ==
    LET fits == {p \in DOMAIN pools :
                    pools[p].Type = diskType /\ Reserved(pools[p]) + size <= pools[p].Size}
    IN  IF fits = {} THEN [err |-> "failed to create sub-volume", pools |-> pools, at |-> <<0, 0>>]
        ELSE LET p == CHOOSE q \in fits : \A r \in fits : q <= r
                 vol == Volume(zdbPoolPrefix, name, size, {})
             IN  [err   |-> "nil",
                  pools |-> [pools EXCEPT ![p].Volumes = Append(@, vol)],
                  at    |-> <<p, Len(pools[p].Volumes) + 1>>]

\* zdbVolume.CreateNamespace: the directory and its .info file
CreateNamespace(pools, at, nsID, size) ==
    [pools EXCEPT ![at[1]].Volumes[at[2]].Namespaces =
        {n \in @ : n.ID # nsID} \cup {[ID |-> nsID, Size |-> size]}]

\* Allocate2(nsID, diskType, size, mode): the allocation, the error and the
\* pools afterwards; name is the name genZDBPoolName draws
Allocate2(pools, nsID, diskType, size, name) ==
    LET found(pool, volume) ==
            pool.Type = diskType /\ isZdbVolume(volume) /\ HasNamespace(volume, nsID)
        roomy(pool, volume) ==
            pool.Type = diskType /\ isZdbVolume(volume)
                /\ ~(U(Total(volume) + size) > pool.Size)
        f == FirstPlace(pools, found)
        c == FirstPlace(pools, roomy)
    IN  IF f # <<0, 0>>
        THEN [allocation |-> AllocationOf(pools[f[1]].Volumes[f[2]]),
              err |-> "nil", pools |-> pools]
        ELSE IF c # <<0, 0>>
        THEN \* the candidate is appended and the function returns
             [allocation |-> NoAllocation, err |-> "nil", pools |-> pools]
        ELSE LET sub == createSubvol(pools, size, name, diskType)
             IN  IF sub.err # "nil"
                 THEN [allocation |-> NoAllocation, err |-> sub.err, pools |-> pools]
                 ELSE [allocation |-> AllocationOf(sub.pools[sub.at[1]].Volumes[sub.at[2]]),
                       err   |-> "nil",
                       pools |-> CreateNamespace(sub.pools, sub.at, nsID, size)]

\* Claim(name, size): the error, the value passed to Limit, the pools
\* afterwards (Limit sets the volume's size)
Claim(pools, name, size) ==
    LET named(pool, volume) == volume.Name = name
        at == FirstPlace(pools, named)
    IN  IF at = <<0, 0>>
        THEN [err |-> "volume not found", usage |-> 0, limit |-> 0, pools |-> pools]
        ELSE LET usage == pools[at[1]].Volumes[at[2]].Size
                 passed == U(usage + Word - size)
             IN  [err   |-> "nil",
                  usage |-> usage,
                  limit |-> passed,
                  pools |-> [pools EXCEPT ![at[1]].Volumes[at[2]].Size = passed]]

\* the pools a node starts with: an SSD pool and a second pool, each empty
\* or with a data volume, a zdb volume (empty or holding namespace 1), or
\* both
PoolSize == MaxSize + 1
VolumeLists(n) ==
    LET data == Volume("data", n, 1, {})
        zdbs == {Volume(zdbPoolPrefix, n, 2, nss) : nss \in {{}, {[ID |-> 1, Size |-> 2]}}}
    IN  {<<>>, <<data>>} \cup {<<z>> : z \in zdbs} \cup {<<data, z>> : z \in zdbs}
InitPools ==
    { << [Type |-> SSDDevice, Size |-> PoolSize, Volumes |-> v1],
         [Type |-> t, Size |-> PoolSize, Volumes |-> v2] >> :
        v1 \in VolumeLists(1), v2 \in VolumeLists(2), t \in {SSDDevice, HDDDevice} }

NoRet == [op |-> "none"]

InitZdb ==
    /\ ApplyIdle
    /\ ClassIdle
    /\ ProvIdle
    /\ network = ApplyNetwork
    /\ localResource = [NodeID    |-> network.Resources[1].NodeID,
                        Prefix    |-> network.Resources[1].Prefix,
                        LinkLocal |-> network.Resources[1].LinkLocal,
                        Peers     |-> <<>>]
    /\ strategy = "none"
    /\ peers = <<>>
    /\ routes = <<>>
    /\ err = "nil"
    /\ remote = <<>>
    /\ race = <<>>
    /\ mon = <<>>
    /\ \E ps \in InitPools : zdb = [pools |-> ps, ops |-> 0, ret |-> NoRet]

ZdbUnchanged == UNCHANGED <<planVars, applyVars, classVars, provVars, remote, race, mon>>

CallAllocate2 ==
    /\ zdb.ops < MaxOps
    /\ \E nsID \in {1, 2}, diskType \in {SSDDevice, HDDDevice}, size \in 0..MaxSize :
        LET r == Allocate2(zdb.pools, nsID, diskType, size, 10 + zdb.ops)
        IN  zdb' = [pools |-> r.pools,
                    ops   |-> zdb.ops + 1,
                    ret   |-> [op |-> "Allocate2", nsID |-> nsID, diskType |-> diskType,
                               size |-> size, before |-> zdb.pools,
                               allocation |-> r.allocation, err |-> r.err]]
    /\ ZdbUnchanged

CallClaim ==
    /\ zdb.ops < MaxOps
    /\ \E name \in {<<zdbPoolPrefix, 1>>, <<zdbPoolPrefix, 2>>, <<"data", 1>>},
          size \in 0..MaxSize :
        LET r == Claim(zdb.pools, name, size)
        IN  zdb' = [pools |-> r.pools,
                    ops   |-> zdb.ops + 1,
                    ret   |-> [op |-> "Claim", name |-> name, size |-> size,
                               usage |-> r.usage, limit |-> r.limit, err |-> r.err]]
    /\ ZdbUnchanged

NextZdb ==
    \/ CallAllocate2
    \/ CallClaim

SpecZdb == InitZdb /\ [][NextZdb]_vars

\* the volumes of the pools of a device type
VolumesOfType(diskType) ==
    UNION {{zdb.pools[p].Volumes[v] : v \in DOMAIN zdb.pools[p].Volumes} :
                p \in {q \in DOMAIN zdb.pools : zdb.pools[q].Type = diskType}}

\* C26: when Allocate2 has returned nil, the allocation has a volume name
\* and a path, they are those of a zdb volume in a pool of the requested
\* type, and that volume holds the namespace.
C26_AllocationNamesVolume ==
    (zdb.ret.op = "Allocate2" /\ zdb.ret.err = "nil") =>
        /\ zdb.ret.allocation.VolumeID # EmptyString
        /\ zdb.ret.allocation.VolumePath # EmptyString
        /\ \E vol \in VolumesOfType(zdb.ret.diskType) :
                /\ isZdbVolume(vol)
                /\ AllocationOf(vol) = zdb.ret.allocation
                /\ HasNamespace(vol, zdb.ret.nsID)

\* the same when the namespace pre-existed or no existing volume had room
C26_ExceptCandidates ==
    (zdb.ret.op = "Allocate2" /\ \A vol \in {v \in VolumesOfType(zdb.ret.diskType) : isZdbVolume(v)} :
            HasNamespace(vol, zdb.ret.nsID)) => C26_AllocationNamesVolume

\* C27: when Claim has returned nil, the value it passed to Limit is at
\* least 1 and at most the volume's size before.
C27_LimitNeverZero ==
    (zdb.ret.op = "Claim" /\ zdb.ret.err = "nil") =>
        (zdb.ret.limit >= 1 /\ zdb.ret.limit <= zdb.ret.usage)

\* the same for a claimed size below the volume's size
C27_WhenBelowUsage ==
    (zdb.ret.op = "Claim" => zdb.ret.size < zdb.ret.usage) => C27_LimitNeverZero

(***************************************************************************)
(* HostMonitorStub.Uptime: the stub opens the stream recv, starts a        *)
(* goroutine and returns the unbuffered channel ch.  The goroutine ranges  *)
(* over recv, decodes each event into a time.Duration (panicking on a      *)
(* payload that does not decode) and sends it on ch; when the range ends   *)
(* the deferred close(ch) runs.  The send is a plain channel send: it      *)
(* completes only when the consumer receives.  The stream belongs to the   *)
(* bus client: it is closed some time after the context is cancelled.      *)
(***************************************************************************)

\* the payloads a stream event may carry: an encoded duration, or bytes
\* that do not decode into one
Payloads == {<<"duration", 1>>, <<"duration", 2>>, <<"malformed">>}

\* event.Unmarshal(&obj): the error, and the decoded value
UnmarshalErr(event) == event[1] # "duration"
Unmarshal(event) == event[2]

InitUptime ==
    /\ ApplyIdle
    /\ ClassIdle
    /\ ProvIdle
    /\ network = ApplyNetwork
    /\ localResource = [NodeID    |-> network.Resources[1].NodeID,
                        Prefix    |-> network.Resources[1].Prefix,
                        LinkLocal |-> network.Resources[1].LinkLocal,
                        Peers     |-> <<>>]
    /\ strategy = "none"
    /\ peers = <<>>
    /\ routes = <<>>
    /\ err = "nil"
    /\ remote = <<>>
    /\ race = <<>>
    /\ zdb = <<>>
    /\ mon = [sent       |-> <<>>,      \* every event the source has emitted
              recv       |-> <<>>,      \* events in the stream, not yet ranged over
              recvClosed |-> FALSE,
              cancelled  |-> FALSE,     \* ctx.Done() is closed
              pc         |-> "range",   \* the goroutine's position
              obj        |-> 0,
              ch         |-> <<>>,      \* the values the consumer received
              chClosed   |-> FALSE,
              consumer   |-> "receiving"]

UptimeUnchanged == UNCHANGED <<planVars, applyVars, classVars, provVars, remote, race, zdb>>

\* the source emits one more event into the stream
Emit ==
    /\ ~mon.recvClosed
    /\ Len(mon.sent) < MaxEvents
    /\ \E event \in Payloads :
            mon' = [mon EXCEPT !.sent = Append(@, event), !.recv = Append(@, event)]
    /\ UptimeUnchanged

\* the caller cancels ctx
Cancel ==
    /\ ~mon.cancelled
    /\ mon' = [mon EXCEPT !.cancelled = TRUE]
    /\ UptimeUnchanged

\* the bus client closes the stream
StreamClose ==
    /\ ~mon.recvClosed
    /\ mon' = [mon EXCEPT !.recvClosed = TRUE]
    /\ UptimeUnchanged

\* for event := range recv, with an event there: decode it
RangeNext ==
    /\ mon.pc = "range"
    /\ mon.recv # <<>>
    /\ LET event == Head(mon.recv)
       IN  IF UnmarshalErr(event)
             THEN mon' = [mon EXCEPT !.recv = Tail(@), !.pc = "panicked", !.chClosed = TRUE]
             ELSE mon' = [mon EXCEPT !.recv = Tail(@), !.pc = "send", !.obj = Unmarshal(event)]
    /\ UptimeUnchanged

\* the range ends on the closed, drained stream; defer close(ch)
RangeEnd ==
    /\ mon.pc = "range"
    /\ mon.recv = <<>>
    /\ mon.recvClosed
    /\ mon' = [mon EXCEPT !.pc = "done", !.chClosed = TRUE]
    /\ UptimeUnchanged

\* ch <- obj: the rendezvous with a consumer that is receiving
Send ==
    /\ mon.pc = "send"
    /\ mon.consumer = "receiving"
    /\ mon' = [mon EXCEPT !.ch = Append(@, mon.obj), !.pc = "range"]
    /\ UptimeUnchanged

\* the consumer stops receiving from ch
ConsumerStops ==
    /\ mon.consumer = "receiving"
    /\ mon' = [mon EXCEPT !.consumer = "stopped"]
    /\ UptimeUnchanged

NextUptime ==
    \/ Emit
    \/ Cancel
    \/ StreamClose
    \/ RangeNext
    \/ RangeEnd
    \/ Send
    \/ ConsumerStops

\* the goroutine runs whenever it can take a step, a receiving consumer
\* takes what is sent, and a cancelled stream is closed by the bus client
SpecUptime ==
    /\ InitUptime
    /\ [][NextUptime]_vars
    /\ WF_vars(RangeNext)
    /\ WF_vars(RangeEnd)
    /\ WF_vars(Send)
    /\ WF_vars(StreamClose /\ mon.cancelled)

Terminated == mon.pc \in {"done", "panicked"}

\* what the consumer received is the decoded events of the source, each
\* once and in arrival order, with nothing lost between stream and channel
ForwardedInOrder ==
    /\ Len(mon.ch) <= Len(mon.sent)
    /\ \A i \in 1..Len(mon.ch) :
            ~UnmarshalErr(mon.sent[i]) /\ mon.ch[i] = Unmarshal(mon.sent[i])
    /\ mon.pc = "send" =>
            mon.obj = Unmarshal(mon.sent[Len(mon.ch) + 1])
    /\ mon.pc # "panicked" =>
            Len(mon.sent) = Len(mon.ch) + Len(mon.recv) + (IF mon.pc = "send" THEN 1 ELSE 0)

\* ch is closed by the goroutine's return only: after the stream was
\* closed and every event was forwarded (or by the panic's unwinding)
ClosedAfterSource ==
    /\ mon.chClosed <=> Terminated
    /\ mon.pc = "done" => (mon.recvClosed /\ Len(mon.ch) = Len(mon.sent))

UptimeForwards == ForwardedInOrder /\ ClosedAfterSource

\* C28: Uptime forwards every event of the stream to the returned channel
\* once and in arrival order and closes the channel after the stream is
\* closed, and once the context is cancelled the goroutine terminates, also
\* when the consumer has stopped receiving.
C28_ForwardsAndTerminates ==
    /\ []UptimeForwards
    /\ (mon.cancelled ~> Terminated)

\* the forwarding part alone
C28_Forwards == []UptimeForwards

\* termination after cancellation for a consumer that keeps receiving
C28_TerminatesWhileReceiving ==
    (mon.cancelled /\ []<>(mon.consumer = "receiving")) ~> Terminated

====
